---- MODULE Spec2Model ----
(***************************************************************************)
(* A model of streamlit_dashboard.py, the MFlix analytics dashboard: the   *)
(* document store it reads, the connection provider, the memoized query    *)
(* functions, and the six view functions main() dispatches to.             *)
(*                                                                         *)
(* Field values of a document are tagged records [t, v]: a number          *)
(* [t |-> "num"], a non-numeric string [t |-> "str"], a numeric string     *)
(* [t |-> "numstr"], null, or a missing field.  Titles and queries are     *)
(* sequences of one-character strings.  Genres are numbered.               *)
(***************************************************************************)
EXTENDS Integers, Sequences, FiniteSets, TLC

VARIABLES
    store,   \* the document store: [movies, theaters, comments, users]
    net,     \* what the environment lets a connection attempt do
    conn,    \* st.cache_resource's entry for get_database_connection
    cache,   \* st.cache_data's entries: key -> [value, stamp, src]
    now,     \* the clock, in seconds
    renders, \* how many times main() has run
    out      \* what the last call or render returned and did

vars == <<store, net, conn, cache, now, renders, out>>

\* ------------------------------------------------------------------------
\* Bounds of the model
\* ------------------------------------------------------------------------
MaxTitleLen == 2
MaxQueryLen == 2
MaxMovies == 2

\* ------------------------------------------------------------------------
\* Values
\* ------------------------------------------------------------------------
Num(n) == [t |-> "num", v |-> n]
Str(n) == [t |-> "str", v |-> n]
NumStr(n) == [t |-> "numstr", v |-> n]
Null == [t |-> "null", v |-> 0]
Missing == [t |-> "missing", v |-> 0]

Min(a, b) == IF a <= b THEN a ELSE b

\* F(v), with v evaluated once
With(v, F(_)) == CHOOSE r \in {F(x) : x \in {v}} : TRUE

\* genre_filter values: a genre number, None, or the selectbox's "All"
GenreNone == 0
GenreAll == -1
\* year_range None; a range is <<lo, hi>>
NoRange == <<>>

NonEmptySeqsUpTo(S, n) == UNION {[1..k -> S] : k \in 1..n}

\* ------------------------------------------------------------------------
\* Pipeline stages of the store
\* ------------------------------------------------------------------------
\* {"$limit": n}
LimitOff(s, n) == s
Limit(s, n) == SubSeq(s, 1, Min(n, Len(s)))

\* {"$exists": True}
Exists(x) == x.t # "missing"
\* {"$exists": True, "$ne": None}; {"$ne": None} alone also excludes a missing field
ExistsNotNull(x) == x.t \notin {"missing", "null"}
\* {"$gte": n} against a number: only numbers compare with a number
Gte(x, n) == x.t = "num" /\ x.v >= n
Lte(x, n) == x.t = "num" /\ x.v <= n

\* ------------------------------------------------------------------------
\* The store's $regex with $options "i"
\* ------------------------------------------------------------------------
Lower(c) == IF c = "A" THEN "a" ELSE IF c = "B" THEN "b" ELSE c

\* The pattern compiles: no group or class is left open, and every "*" follows
\* an item it can repeat.
RegexValid(p) ==
    \A i \in 1..Len(p) :
        /\ p[i] \notin {"(", "["}
        /\ p[i] = "*" => (i > 1 /\ p[i-1] # "*")

\* The pattern as items [c, star]
RECURSIVE Atoms(_)
Atoms(p) ==
    IF p = <<>> THEN <<>>
    ELSE IF Len(p) >= 2 /\ p[2] = "*"
         THEN <<[c |-> p[1], star |-> TRUE]>> \o Atoms(SubSeq(p, 3, Len(p)))
         ELSE <<[c |-> p[1], star |-> FALSE]>> \o Atoms(Tail(p))

CharMatch(pc, tc) == pc = "." \/ Lower(pc) = Lower(tc)

RECURSIVE MatchHere(_, _, _, _)
MatchHere(as, k, t, j) ==
    IF k > Len(as) THEN TRUE
    ELSE IF as[k].star
         THEN \/ MatchHere(as, k + 1, t, j)
              \/ (j <= Len(t) /\ CharMatch(as[k].c, t[j]) /\ MatchHere(as, k, t, j + 1))
         ELSE j <= Len(t) /\ CharMatch(as[k].c, t[j]) /\ MatchHere(as, k + 1, t, j + 1)

\* An unanchored search, as $regex does
RegexSearch(p, t) == \E j \in 1..(Len(t) + 1) : MatchHere(Atoms(p), 1, t, j)

\* ------------------------------------------------------------------------
\* search_movies
\* ------------------------------------------------------------------------
\* match_condition: the keys the three ifs put in the dict
MatchKeysNoYear(query, genre_filter, year_range) ==
    (IF query # <<>> THEN {"title"} ELSE {})
    \cup (IF genre_filter # GenreNone /\ genre_filter # GenreAll THEN {"genres"} ELSE {})

MatchKeys(query, genre_filter, year_range) ==
    (IF query # <<>> THEN {"title"} ELSE {})
    \cup (IF genre_filter # GenreNone /\ genre_filter # GenreAll THEN {"genres"} ELSE {})
    \cup (IF year_range # NoRange THEN {"year"} ELSE {})

\* One key of a $match document against one movie
FieldMatches(k, m, query, genre_filter, year_range) ==
    CASE k = "title" -> RegexSearch(query, m.title)
      [] k = "genres" -> m.genres.t = "arr" /\ \E i \in 1..Len(m.genres.v) : m.genres.v[i] = genre_filter
      [] k = "year" -> Gte(m.year, year_range[1]) /\ Lte(m.year, year_range[2])

\* {"$match": match_condition}: every key of the document must hold
SearchMatches(m, query, genre_filter, year_range) ==
    \A k \in MatchKeys(query, genre_filter, year_range) :
        FieldMatches(k, m, query, genre_filter, year_range)

SearchProject(m) ==
    [id |-> m.id, title |-> m.title, year |-> m.year, genres |-> m.genres, rating |-> m.rating]

ProjectAll(s, P(_)) == [i \in 1..Len(s) |-> P(s[i])]

SearchLimit == 50

\* The body of search_movies: the aggregate raises when the pattern does not compile
search_movies(db, query, genre_filter, year_range) ==
    IF query # <<>> /\ ~RegexValid(query)
    THEN [raised |-> TRUE, rows |-> <<>>]
    ELSE [raised |-> FALSE,
          rows |-> Limit(ProjectAll(SelectSeq(db.movies,
                              LAMBDA m : SearchMatches(m, query, genre_filter, year_range)),
                              SearchProject),
                         SearchLimit)]

\* ------------------------------------------------------------------------
\* {"$sort": ...}
\* ------------------------------------------------------------------------
\* The store's order of values of different types: null, then numbers, then strings
TypeOrder(t) == CASE t \in {"missing", "null"} -> 1 [] t = "num" -> 2 [] OTHER -> 3
BsonLess(x, y) ==
    \/ TypeOrder(x.t) < TypeOrder(y.t)
    \/ (TypeOrder(x.t) = TypeOrder(y.t) /\ TypeOrder(x.t) # 1 /\ x.v < y.v)

\* Which of two documents with equal sort keys comes first is the store's choice:
\* in scan order or against it.
TieOrders == {"fwd", "rev"}

\* s sorted so that a comes before b whenever Before(a, b)
SortBy(s, Before(_, _), tie) ==
    With(s, LAMBDA ss :
        With([i \in 1..Len(ss) |->
                 1 + Cardinality({j \in 1..Len(ss) :
                        \/ Before(ss[j], ss[i])
                        \/ (~Before(ss[i], ss[j]) /\ (IF tie = "fwd" THEN j < i ELSE j > i))})],
             LAMBDA rank : [k \in 1..Len(ss) |-> ss[CHOOSE i \in 1..Len(ss) : rank[i] = k]]))

\* ------------------------------------------------------------------------
\* get_top_rated_movies
\* ------------------------------------------------------------------------
MinVotes == 1000

TopMatchesNoVotes(m) == ExistsNotNull(m.rating)
TopMatches(m) == ExistsNotNull(m.rating) /\ Gte(m.votes, MinVotes)

TopProject(m) ==
    [id |-> m.id, title |-> m.title, year |-> m.year, genres |-> m.genres,
     rating |-> m.rating, votes |-> m.votes]

\* {"$sort": {"rating": -1}}
RatingDescending(a, b) == BsonLess(b.rating, a.rating)

get_top_rated_movies(db, limit, tie) ==
    Limit(SortBy(ProjectAll(SelectSeq(db.movies, TopMatches), TopProject),
                 RatingDescending, tie),
          limit)

\* ------------------------------------------------------------------------
\* {"$unwind": ...}, {"$group": ...}
\* ------------------------------------------------------------------------
RECURSIVE Flatten(_)
Flatten(ss) == IF ss = <<>> THEN <<>> ELSE Head(ss) \o Flatten(Tail(ss))

Range(s) == {s[i] : i \in 1..Len(s)}

\* The set S as a sequence in the order Less
SetToSeq(S, Less(_, _)) ==
    With([x \in S |-> Cardinality({y \in S : Less(y, x)})],
         LAMBDA rank : [k \in 1..Cardinality(S) |-> CHOOSE x \in S : rank[x] = k - 1])

IntLess(a, b) == a < b

\* {"$group": {"_id": key, "count": {"$sum": 1}}} over the keys of the incoming
\* documents: one row per distinct key
GroupCount(keys, Less(_, _)) ==
    With(keys, LAMBDA ks :
        With(SetToSeq(Range(ks), Less), LAMBDA ids :
            [k \in 1..Len(ids) |->
                [id |-> ids[k], count |-> Cardinality({i \in 1..Len(ks) : ks[i] = ids[k]})]]))

CountDescending(a, b) == a.count > b.count
IdAscending(a, b) == a.id < b.id

RECURSIVE SumSeq(_)
SumSeq(s) == IF s = <<>> THEN 0 ELSE Head(s) + SumSeq(Tail(s))

\* {"$avg": ...}: the mean of the numeric values (here to the integer below), null
\* when there is none
Avg(vals) ==
    LET nums == SelectSeq(vals, LAMBDA x : x.t = "num")
    IN IF nums = <<>> THEN Null
       ELSE Num(SumSeq([i \in 1..Len(nums) |-> nums[i].v]) \div Len(nums))

\* ------------------------------------------------------------------------
\* get_overview_stats
\* ------------------------------------------------------------------------
get_overview_stats(db) ==
    LET rated == SelectSeq(db.movies, LAMBDA m : ExistsNotNull(m.rating))
        \* one group, or none when nothing matched
        avg_rating == IF rated = <<>> THEN <<>>
                      ELSE <<Avg([i \in 1..Len(rated) |-> rated[i].rating])>>
    IN [total_movies |-> Len(db.movies),
        total_users |-> db.users,
        total_comments |-> Len(db.comments),
        total_theaters |-> Len(db.theaters),
        avg_rating |-> IF avg_rating # <<>> THEN avg_rating[1] ELSE Num(0)]

\* ------------------------------------------------------------------------
\* get_genre_distribution
\* ------------------------------------------------------------------------
GenreLimit == 20

HasGenres(m) == m.genres.t = "arr" /\ m.genres.v # <<>>

\* {"$unwind": "$genres"}: one row per genre tag of each movie
UnwindGenres(ms) == Flatten([i \in 1..Len(ms) |-> ms[i].genres.v])

\* rows [id |-> genre, count]: the Genre and Count columns
get_genre_distribution(db, tie) ==
    Limit(SortBy(GroupCount(UnwindGenres(SelectSeq(db.movies, HasGenres)), IntLess),
                 CountDescending, tie),
          GenreLimit)

\* ------------------------------------------------------------------------
\* get_rating_distribution
\* ------------------------------------------------------------------------
get_rating_distribution(db) ==
    LET rated == SelectSeq(db.movies, LAMBDA m : ExistsNotNull(m.rating))
    IN Limit([i \in 1..Len(rated) |-> [id |-> rated[i].id, rating |-> rated[i].rating]], 10000)

\* ------------------------------------------------------------------------
\* get_movies_by_decade
\* ------------------------------------------------------------------------
Decade(year) == year - (year % 10)

\* rows [id |-> decade, count]: the Decade and Count columns
get_movies_by_decade_unwound(db) ==
    LET dated == SelectSeq(db.movies, LAMBDA m : ExistsNotNull(m.year) /\ Gte(m.year, 1900))
    IN SortBy(GroupCount(Flatten([i \in 1..Len(dated) |->
                                     [j \in 1..Len(dated[i].genres.v) |-> Decade(dated[i].year.v)]]),
                         IntLess),
              IdAscending, "fwd")

get_movies_by_decade(db) ==
    LET dated == SelectSeq(db.movies, LAMBDA m : ExistsNotNull(m.year) /\ Gte(m.year, 1900))
    IN SortBy(GroupCount([i \in 1..Len(dated) |-> Decade(dated[i].year.v)], IntLess),
              IdAscending, "fwd")

\* ------------------------------------------------------------------------
\* get_theater_locations
\* ------------------------------------------------------------------------
TheaterLimit == 500

get_theater_locations(db) ==
    Limit(ProjectAll(SelectSeq(db.theaters, LAMBDA th : th.coordinates.shape # "missing"),
                     LAMBDA th : [city |-> th.city, state |-> th.state,
                                  coordinates |-> th.coordinates]),
          TheaterLimit)

\* ------------------------------------------------------------------------
\* get_comment_trends
\* ------------------------------------------------------------------------
CommentLimit == 100

MonthLess(a, b) == a.year < b.year \/ (a.year = b.year /\ a.month < b.month)
MonthAscending(a, b) == MonthLess(a.id, b.id)

\* rows [date |-> [year, month], Comments]; the empty frame when there is no data
get_comment_trends(db) ==
    LET dated == SelectSeq(db.comments, LAMBDA c : c.date.t # "missing")
        data == Limit(SortBy(GroupCount([i \in 1..Len(dated) |->
                                            [year |-> dated[i].date.year, month |-> dated[i].date.month]],
                                        MonthLess),
                             MonthAscending, "fwd"),
                      CommentLimit)
    IN [i \in 1..Len(data) |-> [date |-> data[i].id, Comments |-> data[i].count]]

\* ------------------------------------------------------------------------
\* show_geographic_view: the marker loop and the theaters-by-state pipeline
\* ------------------------------------------------------------------------
MarkerLimit == 200

\* theaters[:200]
Slice(s, n) == SubSeq(s, 1, Min(n, Len(s)))

\* 'coordinates' in theater and theater['coordinates']
Truthy(coords) ==
    CASE coords.shape \in {"missing", "null"} -> FALSE
      [] coords.shape = "num" -> coords.items[1].v # 0
      [] OTHER -> coords.items # <<>>

\* len(coords) is defined for a list, a string and a sub-document
HasLen(coords) == coords.shape \in {"list", "str", "dict"}

\* float(c) returns, and folium accepts the number
FloatOk(c) == c.t \in {"num", "numstr"}

\* What one pass of the loop body does with a theater: "marker", "skip" (an if
\* is false, or the try caught the exception) or "raise" (an exception outside
\* the try)
MarkerStep(theater) ==
    LET coords == theater.coordinates
    IN IF ~Truthy(coords) THEN "skip"
       ELSE IF ~HasLen(coords) THEN "raise"
       ELSE IF Len(coords.items) < 2 THEN "skip"
       ELSE IF coords.shape = "dict" THEN "skip"
       ELSE IF FloatOk(coords.items[1]) /\ FloatOk(coords.items[2]) THEN "marker"
       ELSE "skip"

\* location = [lat, lon] from the store's [longitude, latitude]
MarkerOf(theater) ==
    [lat |-> theater.coordinates.items[2].v, lon |-> theater.coordinates.items[1].v,
     city |-> theater.city, state |-> theater.state]

\* The for loop over theaters[:200]: the markers added, and whether an exception
\* left the loop (and the view)
PlaceMarkers(theaters) ==
    LET first == Slice(theaters, MarkerLimit)
        raisers == {i \in 1..Len(first) : MarkerStep(first[i]) = "raise"}
        stop == IF raisers = {} THEN Len(first) + 1
                ELSE CHOOSE i \in raisers : \A j \in raisers : i <= j
        placed == SelectSeq(SubSeq(first, 1, stop - 1), LAMBDA th : MarkerStep(th) = "marker")
    IN [markers |-> ProjectAll(placed, MarkerOf), raised |-> raisers # {}]

\* The theaters-by-state pipeline: rows [id |-> state, count]
state_distribution(db, tie) ==
    LET located == SelectSeq(db.theaters, LAMBDA th : Exists(th.state))
    IN Limit(SortBy(GroupCount([i \in 1..Len(located) |-> located[i].state.v], IntLess),
                    CountDescending, tie),
             15)

\* ------------------------------------------------------------------------
\* Documents
\* ------------------------------------------------------------------------
Genres(s) == [t |-> "arr", v |-> s]
NoGenres == [t |-> "missing", v |-> <<>>]

Movie(i, title, year, genres, rating, votes) ==
    [id |-> i, title |-> title, year |-> year, genres |-> genres,
     rating |-> rating, votes |-> votes]

\* A theater's location.geo.coordinates: its shape (a list, a string, a number, a
\* sub-document, null, or no such field) and its components
Coordinates(shape, items) == [shape |-> shape, items |-> items]
NoCoordinates == Coordinates("missing", <<>>)
Theater(city, state, coordinates) == [city |-> city, state |-> state, coordinates |-> coordinates]

NoDate == [t |-> "missing", year |-> 0, month |-> 0]
Date(y, m) == [t |-> "date", year |-> y, month |-> m]
Comment(movie_id, date) == [movie_id |-> movie_id, date |-> date]

EmptyStore == [movies |-> <<>>, theaters |-> <<>>, comments |-> <<>>, users |-> 0]

NoArgs == [query |-> <<>>, genre |-> GenreNone, yr |-> NoRange, limit |-> 0]

NoCache == [k \in {} |-> 0]

\* The variables the pure-function specifications leave as constructed
Idle ==
    /\ net = "up"
    /\ conn = "unset"
    /\ cache = NoCache
    /\ now = 0
    /\ renders = 0
    /\ out = [op |-> "none"]

\* ------------------------------------------------------------------------
\* SpecText: search_movies with only the text filter, one title at a time
\* ------------------------------------------------------------------------
TitleChars == {"a", "A", "b", ".", "("}
QueryChars == {"a", "A", "b", ".", "*", "(", "["}

InitText ==
    /\ \E t \in NonEmptySeqsUpTo(TitleChars, MaxTitleLen) :
          store = [EmptyStore EXCEPT
                      !.movies = <<Movie(1, t, Num(1999), Genres(<<1>>), Num(70), Num(2000))>>]
    /\ Idle

SearchText(q) ==
    /\ out' = [op |-> "search_movies",
               args |-> [NoArgs EXCEPT !.query = q],
               res |-> search_movies(store, q, GenreNone, NoRange)]
    /\ UNCHANGED <<store, net, conn, cache, now, renders>>

NextText == \E q \in NonEmptySeqsUpTo(QueryChars, MaxQueryLen) : SearchText(q)

SpecText == InitText /\ [][NextText]_vars

\* The query occurs in the title as a literal contiguous substring, letters
\* compared without case
ContainsLiteral(t, q) ==
    \E j \in 0..(Len(t) - Len(q)) : \A i \in 1..Len(q) : Lower(t[j + i]) = Lower(q[i])

\* C9: with only the text filter, a title is among the matches if and only if the
\* non-empty query occurs in it as a literal, case-insensitive substring, whatever
\* characters the query holds.
C9_LiteralSubstring ==
    out.op = "search_movies" =>
        /\ ~out.res.raised
        /\ \A i \in 1..Len(store.movies) :
              (\E r \in 1..Len(out.res.rows) : out.res.rows[r].id = store.movies[i].id)
                  <=> ContainsLiteral(store.movies[i].title, out.args.query)

\* ------------------------------------------------------------------------
\* SpecSearch: search_movies under every combination of its three filters
\* ------------------------------------------------------------------------
SearchTitles == {<<"a", "b">>, <<"b">>}
SearchYears == {Num(1989), Num(1990), Str(0)}
SearchGenres == {NoGenres, Genres(<<2, 1>>)}
SearchQueries == {<<>>, <<"A">>, <<"b">>, <<"(">>}
SearchGenreFilters == {GenreNone, GenreAll, 1, 3}
SearchRanges == {NoRange, <<1990, 2020>>, <<1989, 1989>>}

SearchMovieAt(i) ==
    {Movie(i, t, y, g, Num(70), Num(2000)) : t \in SearchTitles, y \in SearchYears, g \in SearchGenres}

InitSearch ==
    /\ \E n \in 0..MaxMovies :
          \E ms \in [1..n -> SearchMovieAt(1)] :
              store = [EmptyStore EXCEPT !.movies = [i \in 1..n |-> [ms[i] EXCEPT !.id = i]]]
    /\ Idle

Search(q, g, yr) ==
    /\ out' = [op |-> "search_movies",
               args |-> [NoArgs EXCEPT !.query = q, !.genre = g, !.yr = yr],
               res |-> search_movies(store, q, g, yr)]
    /\ UNCHANGED <<store, net, conn, cache, now, renders>>

NextSearch ==
    \E q \in SearchQueries, g \in SearchGenreFilters, yr \in SearchRanges : Search(q, g, yr)

SpecSearch == InitSearch /\ [][NextSearch]_vars

\* What the claim asks of a row, filter by filter
TitleOk(m, q) == q = <<>> \/ RegexSearch(q, m.title)
GenreOk(m, g) == g \in {GenreNone, GenreAll} \/ (m.genres.t = "arr" /\ \E i \in 1..Len(m.genres.v) : m.genres.v[i] = g)
YearOk(m, yr) == yr = NoRange \/ (m.year.t = "num" /\ yr[1] <= m.year.v /\ m.year.v <= yr[2])
AllFiltersOk(m, a) == TitleOk(m, a.query) /\ GenreOk(m, a.genre) /\ YearOk(m, a.yr)

\* C1: every row search_movies returns satisfies all the supplied filters at once,
\* a filter that is not supplied restricts nothing, and (under the cap of 50) the
\* rows returned are exactly the movies that satisfy all the supplied filters.
C1_Conjunction ==
    out.op = "search_movies" =>
        /\ \A r \in 1..Len(out.res.rows) : AllFiltersOk(out.res.rows[r], out.args)
        /\ \A i \in 1..Len(store.movies) :
              (~out.res.raised /\ AllFiltersOk(store.movies[i], out.args)) =>
                  \E r \in 1..Len(out.res.rows) : out.res.rows[r].id = store.movies[i].id

\* A search with all three filters supplied returned one movie and left out one
\* that satisfies only some of them
C1_Witness ==
    /\ out.op = "search_movies"
    /\ out.args.query # <<>> /\ out.args.genre \notin {GenreNone, GenreAll} /\ out.args.yr # NoRange
    /\ Len(out.res.rows) = 1
    /\ \E i \in 1..Len(store.movies) :
          /\ ~AllFiltersOk(store.movies[i], out.args)
          /\ TitleOk(store.movies[i], out.args.query) /\ GenreOk(store.movies[i], out.args.genre)

\* ------------------------------------------------------------------------
\* SpecTop: get_top_rated_movies over small collections
\* ------------------------------------------------------------------------
MaxLimit == 2
MaxTopMovies == 3

TopRatings == {Num(70), Num(90), Str(0), Null, Missing}
TopVotes == {Num(999), Num(1000), Str(0)}

InitTop ==
    /\ \E n \in 0..MaxTopMovies :
          \E rs \in [1..n -> TopRatings], vs \in [1..n -> TopVotes] :
              store = [EmptyStore EXCEPT !.movies =
                          [i \in 1..n |-> Movie(i, <<"a">>, Num(1999), Genres(<<1>>), rs[i], vs[i])]]
    /\ Idle

TopRated(limit, tie) ==
    /\ out' = [op |-> "get_top_rated_movies",
               args |-> [NoArgs EXCEPT !.limit = limit],
               rows |-> get_top_rated_movies(store, limit, tie)]
    /\ UNCHANGED <<store, net, conn, cache, now, renders>>

NextTop == \E limit \in 1..MaxLimit, tie \in TieOrders : TopRated(limit, tie)

SpecTop == InitTop /\ [][NextTop]_vars

\* The movies the claim counts: a present, non-null rating and at least 1000 votes
Qualifying(ms) ==
    {i \in 1..Len(ms) : /\ ms[i].rating.t \notin {"missing", "null"}
                        /\ ms[i].votes.t = "num" /\ ms[i].votes.v >= 1000}

Returned(rows, m) == \E r \in 1..Len(rows) : rows[r].id = m.id

MaxTheaters == 2

CoordinateShapes ==
    {NoCoordinates,
     Coordinates("null", <<>>),
     Coordinates("list", <<>>),
     Coordinates("list", <<Num(-98)>>),
     Coordinates("list", <<Num(-98), Num(39)>>),
     Coordinates("list", <<NumStr(-98), NumStr(39)>>),
     Coordinates("list", <<Str(0), Num(39)>>),
     Coordinates("list", <<Num(-98), Null>>),
     Coordinates("list", <<Num(-98), Num(39), Num(7)>>),
     Coordinates("str", <<>>),
     Coordinates("str", <<Str(0), Str(0)>>),
     Coordinates("dict", <<Num(-98), Num(39)>>),
     Coordinates("num", <<Num(0)>>),
     Coordinates("num", <<Num(5)>>)}

InitGeo ==
    /\ \E n \in 0..MaxTheaters :
          \E cs \in [1..n -> CoordinateShapes] :
              store = [EmptyStore EXCEPT !.theaters = [i \in 1..n |-> Theater(Str(i), Str(1), cs[i])]]
    /\ Idle

\* The loop of show_geographic_view over what get_theater_locations fetched
Markers ==
    /\ LET fetched == get_theater_locations(store)
       IN out' = [op |-> "markers", fetched |-> fetched, res |-> PlaceMarkers(fetched)]
    /\ UNCHANGED <<store, net, conn, cache, now, renders>>

Theaters ==
    /\ out' = [op |-> "get_theater_locations", rows |-> get_theater_locations(store)]
    /\ UNCHANGED <<store, net, conn, cache, now, renders>>

NextGeo == Markers \/ Theaters

SpecGeo == InitGeo /\ [][NextGeo]_vars

\* A coordinates value the claim calls well formed: two leading numeric components
WellFormed(coords) ==
    /\ coords.shape \in {"list", "str"}
    /\ Len(coords.items) >= 2
    /\ coords.items[1].t \in {"num", "numstr"}
    /\ coords.items[2].t \in {"num", "numstr"}

\* C6: whatever the fetched records hold, the marker loop raises nothing, skips
\* every record whose coordinates are missing, empty, too short or non-numeric,
\* and gives every other record among the first 200 its marker.
C6_MalformedSkipped ==
    out.op = "markers" =>
        /\ ~out.res.raised
        /\ Len(out.res.markers) =
               Cardinality({i \in 1..Min(Len(out.fetched), 200) : WellFormed(out.fetched[i].coordinates)})

\* ------------------------------------------------------------------------
\* SpecCaps: the capped queries over collections larger than their caps
\* ------------------------------------------------------------------------
\* How far past a cap the collections go
Over == 1

\* n movies with g distinct genres between them, all found by the query "a"
ManyMovies(n, g) ==
    [i \in 1..n |-> Movie(i, <<"a">>, Num(1990 + (i % 3)), Genres(<<1 + (i % g)>>),
                          Num(60 + (i % 4)), Num(1000 + i))]

\* n theaters, every third one without usable coordinates
ManyTheaters(n) ==
    [i \in 1..n |-> Theater(Str(i), Str(1 + (i % 3)),
                            IF i % 3 = 0 THEN Coordinates("list", <<Num(-98)>>)
                            ELSE Coordinates("list", <<Num(-98), Num(39)>>))]

\* n comments, each in a month of its own
ManyComments(n) == [i \in 1..n |-> Comment(1, Date(1990 + (i \div 12), 1 + (i % 12)))]

InitCaps ==
    /\ \E nm \in {0, SearchLimit, SearchLimit + Over},
          g \in {1, GenreLimit, GenreLimit + Over},
          nt \in {0, MarkerLimit + Over, TheaterLimit + Over},
          nc \in {0, CommentLimit, CommentLimit + Over} :
          store = [movies |-> ManyMovies(nm, g), theaters |-> ManyTheaters(nt),
                   comments |-> ManyComments(nc), users |-> 1]
    /\ Idle

GenreDistribution(tie) ==
    /\ out' = [op |-> "get_genre_distribution", rows |-> get_genre_distribution(store, tie)]
    /\ UNCHANGED <<store, net, conn, cache, now, renders>>

CommentTrends ==
    /\ out' = [op |-> "get_comment_trends", rows |-> get_comment_trends(store)]
    /\ UNCHANGED <<store, net, conn, cache, now, renders>>

NextCaps ==
    \/ \E limit \in 1..MaxLimit, tie \in TieOrders : TopRated(limit, tie)
    \/ \E q \in {<<>>, <<"a">>} : Search(q, GenreNone, NoRange)
    \/ \E tie \in TieOrders : GenreDistribution(tie)
    \/ CommentTrends
    \/ Theaters
    \/ Markers

SpecCaps == InitCaps /\ [][NextCaps]_vars

\* C3: no capped query returns more rows than its cap: the top-rated list at most
\* the requested limit, a search at most 50, the genre distribution at most 20,
\* the comment trends at most 100, the theater locations at most 500, and the map
\* at most 200 markers however many theaters were fetched.
C3_Caps ==
    /\ out.op = "get_top_rated_movies" => Len(out.rows) <= out.args.limit
    /\ out.op = "search_movies" => Len(out.res.rows) <= 50
    /\ out.op = "get_genre_distribution" => Len(out.rows) <= 20
    /\ out.op = "get_comment_trends" => Len(out.rows) <= 100
    /\ out.op = "get_theater_locations" => Len(out.rows) <= 500
    /\ out.op = "markers" => Len(out.res.markers) <= 200

\* More theaters than the cap were in the store and exactly the cap came back
C3_Witness ==
    /\ out.op = "get_theater_locations"
    /\ Len(store.theaters) > 500
    /\ Len(out.rows) = 500

\* ------------------------------------------------------------------------
\* SpecAgg: the grouped aggregations over small collections
\* ------------------------------------------------------------------------
AggYears == {Num(1899), Num(1995), Num(1999), Null}
AggGenres == {NoGenres, Genres(<<1>>), Genres(<<1, 2>>)}
AggStates == {Missing, Str(1), Str(2)}

InitAgg ==
    /\ \E n \in 0..MaxMovies, k \in 0..MaxTheaters :
          \E ys \in [1..n -> AggYears], gs \in [1..n -> AggGenres], ss \in [1..k -> AggStates] :
              store = [EmptyStore EXCEPT
                          !.movies = [i \in 1..n |-> Movie(i, <<"a">>, ys[i], gs[i], Num(70), Num(2000))],
                          !.theaters = [i \in 1..k |->
                                           Theater(Str(i), ss[i], Coordinates("list", <<Num(-98), Num(39)>>))]]
    /\ Idle

MoviesByDecade ==
    /\ out' = [op |-> "get_movies_by_decade", rows |-> get_movies_by_decade(store)]
    /\ UNCHANGED <<store, net, conn, cache, now, renders>>

\* The theaters-by-state pipeline of show_geographic_view
StateDistribution(tie) ==
    /\ out' = [op |-> "state_distribution", rows |-> state_distribution(store, tie)]
    /\ UNCHANGED <<store, net, conn, cache, now, renders>>

NextAgg ==
    \/ \E tie \in TieOrders : GenreDistribution(tie)
    \/ MoviesByDecade
    \/ \E tie \in TieOrders : StateDistribution(tie)

SpecAgg == InitAgg /\ [][NextAgg]_vars

\* The sum of the Count column
SumCount(rows) == SumSeq([i \in 1..Len(rows) |-> rows[i].count])

\* All the genre tags of all the movies
GenreTags(ms) == SumSeq([i \in 1..Len(ms) |-> Len(ms[i].genres.v)])

\* C4 as stated: the Count column of each grouped aggregation sums to at most the
\* number of documents of its collection: genre counts and decade counts to at most
\* the number of movies, state counts to at most the number of theaters.
C4_SumsWithinTotal ==
    /\ out.op = "get_genre_distribution" => SumCount(out.rows) <= Len(store.movies)
    /\ out.op = "get_movies_by_decade" => SumCount(out.rows) <= Len(store.movies)
    /\ out.op = "state_distribution" => SumCount(out.rows) <= Len(store.theaters)

\* C4 as amended: decade counts sum to at most the number of movies and state
\* counts to at most the number of theaters; genre counts, taken after the unwind,
\* sum to at most the number of genre tags of all the movies.
C4_SumsAmended ==
    /\ out.op = "get_genre_distribution" => SumCount(out.rows) <= GenreTags(store.movies)
    /\ out.op = "get_movies_by_decade" => SumCount(out.rows) <= Len(store.movies)
    /\ out.op = "state_distribution" => SumCount(out.rows) <= Len(store.theaters)

\* The genre counts sum to every tag of the store, more than there are movies
C4_Witness ==
    /\ out.op = "get_genre_distribution"
    /\ SumCount(out.rows) = GenreTags(store.movies)
    /\ SumCount(out.rows) > Len(store.movies)

\* ------------------------------------------------------------------------
\* The pipelines the view functions run inline
\* ------------------------------------------------------------------------
AvgDescending(a, b) == BsonLess(b.avg_rating, a.avg_rating)

\* show_movie_analytics, tab 2: rows [id |-> genre, avg_rating, count]
genre_ratings(db, tie) ==
    With(SelectSeq(db.movies, LAMBDA m : HasGenres(m) /\ ExistsNotNull(m.rating)), LAMBDA ms :
    With(Flatten([i \in 1..Len(ms) |->
                     [j \in 1..Len(ms[i].genres.v) |-> [g |-> ms[i].genres.v[j], rating |-> ms[i].rating]]]),
         LAMBDA un :
    With(GroupCount([i \in 1..Len(un) |-> un[i].g], IntLess), LAMBDA gs :
        Limit(SortBy(SelectSeq([k \in 1..Len(gs) |->
                                   [id |-> gs[k].id,
                                    avg_rating |-> Avg(ProjectAll(SelectSeq(un, LAMBDA u : u.g = gs[k].id),
                                                                  LAMBDA u : u.rating)),
                                    count |-> gs[k].count]],
                               LAMBDA r : r.count >= 50),
                     AvgDescending, tie),
              15))))

\* show_temporal_trends: rows [id |-> decade, avg_rating, count]
rating_trend(db) ==
    With(SelectSeq(db.movies, LAMBDA m : /\ ExistsNotNull(m.year) /\ Gte(m.year, 1950)
                                         /\ ExistsNotNull(m.rating)),
         LAMBDA ms :
    With(GroupCount([i \in 1..Len(ms) |-> Decade(ms[i].year.v)], IntLess), LAMBDA gs :
        SortBy([k \in 1..Len(gs) |->
                   [id |-> gs[k].id,
                    avg_rating |-> Avg(ProjectAll(SelectSeq(ms, LAMBDA m : Decade(m.year.v) = gs[k].id),
                                                  LAMBDA m : m.rating)),
                    count |-> gs[k].count]],
               IdAscending, "fwd")))

\* show_user_engagement: the ten most commented movies, joined to their movie
most_commented(db, tie) ==
    With(Limit(SortBy(GroupCount([i \in 1..Len(db.comments) |-> db.comments[i].movie_id], IntLess),
                      CountDescending, tie),
               10),
         LAMBDA top :
        Flatten([k \in 1..Len(top) |->
                    ProjectAll(SelectSeq(db.movies, LAMBDA m : m.id = top[k].id),
                               LAMBDA m : [id |-> top[k].id, title |-> m.title, year |-> m.year,
                                           comment_count |-> top[k].count])]))

\* show_search: sorted(db['movies'].distinct('genres'))
distinct_genres(db) ==
    SetToSeq(UNION {Range(db.movies[i].genres.v) : i \in 1..Len(db.movies)}, IntLess)

\* ------------------------------------------------------------------------
\* st.cache_data(ttl=3600)
\* ------------------------------------------------------------------------
TTL == 3600

\* An entry is served while it is younger than the ttl
LiveNever(stamp, t) == FALSE
LiveAlways(stamp, t) == TRUE
Live(stamp, t) == t - stamp < TTL

\* The key of an entry: the function and its arguments, _db left out
Key(fn, args) == [fn |-> fn, args |-> args]

\* The body of a memoized function on the store db: [raised, value]
Exec(fn, args, db, tie) ==
    CASE fn = "get_overview_stats" -> [raised |-> FALSE, value |-> get_overview_stats(db)]
      [] fn = "get_genre_distribution" -> [raised |-> FALSE, value |-> get_genre_distribution(db, tie)]
      [] fn = "get_rating_distribution" -> [raised |-> FALSE, value |-> get_rating_distribution(db)]
      [] fn = "get_movies_by_decade" -> [raised |-> FALSE, value |-> get_movies_by_decade(db)]
      [] fn = "get_top_rated_movies" -> [raised |-> FALSE, value |-> get_top_rated_movies(db, args.limit, tie)]
      [] fn = "get_theater_locations" -> [raised |-> FALSE, value |-> get_theater_locations(db)]
      [] fn = "get_comment_trends" -> [raised |-> FALSE, value |-> get_comment_trends(db)]
      [] fn = "search_movies" ->
            With(search_movies(db, args.query, args.genre, args.yr),
                 LAMBDA r : [raised |-> r.raised, value |-> r.rows])

\* The requests the body of a memoized function sends
Requests(fn, args) ==
    CASE fn = "get_overview_stats" ->
            <<[via |-> "memo", fn |-> fn, args |-> args, name |-> "movies.count_documents"],
              [via |-> "memo", fn |-> fn, args |-> args, name |-> "users.count_documents"],
              [via |-> "memo", fn |-> fn, args |-> args, name |-> "comments.count_documents"],
              [via |-> "memo", fn |-> fn, args |-> args, name |-> "theaters.count_documents"],
              [via |-> "memo", fn |-> fn, args |-> args, name |-> "movies.aggregate"]>>
      [] fn = "get_theater_locations" -> <<[via |-> "memo", fn |-> fn, args |-> args, name |-> "theaters.aggregate"]>>
      [] fn = "get_comment_trends" -> <<[via |-> "memo", fn |-> fn, args |-> args, name |-> "comments.aggregate"]>>
      [] OTHER -> <<[via |-> "memo", fn |-> fn, args |-> args, name |-> "movies.aggregate"]>>

\* The state of a render: the cache, the requests that reached the store, the
\* memoized calls made, whether an exception has ended the render and why, and
\* the value the last call returned
StartRender(c) ==
    [cache |-> c, sent |-> <<>>, calls |-> <<>>, status |-> "ok", cause |-> "none",
     markers |-> <<>>, val |-> 0]

\* An exception propagates: the rest of the render does not run
Fail(ctx, cause) == [ctx EXCEPT !.status = "raised", !.cause = cause]
FailIf(ctx, cond, cause) == IF ctx.status = "ok" /\ cond THEN Fail(ctx, cause) ELSE ctx

\* A call of the memoized function fn at time t
Memo(ctx, fn, args, db, t, tie) ==
    IF ctx.status # "ok" THEN ctx
    ELSE LET k == Key(fn, args)
         IN IF k \in DOMAIN ctx.cache /\ Live(ctx.cache[k].stamp, t)
            THEN [ctx EXCEPT !.val = ctx.cache[k].value,
                             !.calls = Append(@, [fn |-> fn, args |-> args, hit |-> TRUE,
                                                  value |-> ctx.cache[k].value,
                                                  stamp |-> ctx.cache[k].stamp,
                                                  src |-> ctx.cache[k].src])]
            ELSE IF net # "up" THEN Fail(ctx, "store")
            ELSE With(Exec(fn, args, db, tie), LAMBDA r :
                    IF r.raised
                    THEN [ctx EXCEPT !.status = "raised", !.cause = "query",
                                     !.sent = @ \o Requests(fn, args)]
                    ELSE [ctx EXCEPT
                            !.cache = [x \in DOMAIN ctx.cache \cup {k} |->
                                          IF x = k THEN [value |-> r.value, stamp |-> t, src |-> db]
                                          ELSE ctx.cache[x]],
                            !.val = r.value,
                            !.sent = @ \o Requests(fn, args),
                            !.calls = Append(@, [fn |-> fn, args |-> args, hit |-> FALSE,
                                                 value |-> r.value, stamp |-> t, src |-> db])])

\* A read a view makes itself: db[...].aggregate(pipeline), db[...].distinct(...)
Inline(ctx, name, value) ==
    IF ctx.status # "ok" THEN ctx
    ELSE IF net # "up" THEN Fail(ctx, "store")
    ELSE [ctx EXCEPT !.val = value, !.sent = Append(@, [via |-> "inline", fn |-> "", args |-> NoArgs, name |-> name])]

\* ------------------------------------------------------------------------
\* The view functions
\* ------------------------------------------------------------------------
\* f"{x:.2f}" of a value that is no number raises
NotNumber(x) == x.t # "num"

show_overview(ctx, db, t, tie) ==
    With(Memo(ctx, "get_overview_stats", NoArgs, db, t, tie), LAMBDA c1 :
    With(FailIf(c1, NotNumber(c1.val.avg_rating), "format"), LAMBDA c2 :
    With(Memo(c2, "get_genre_distribution", NoArgs, db, t, tie), LAMBDA c3 :
    \* px.bar of a frame without the Count and Genre columns
    With(FailIf(c3, Len(c3.val) = 0, "empty"), LAMBDA c4 :
    With(Memo(c4, "get_rating_distribution", NoArgs, db, t, tie), LAMBDA c5 :
    \* px.histogram of a frame without the rating column
    FailIf(c5, Len(c5.val) = 0, "empty"))))))

show_movie_analytics(ctx, db, t, tie) ==
    With(Memo(ctx, "get_top_rated_movies", [NoArgs EXCEPT !.limit = 20], db, t, tie), LAMBDA c1 :
    \* top_movies['genres'], row['year']: a column no row has
    With(FailIf(c1, /\ Len(c1.val) > 0
                    /\ \/ \A i \in 1..Len(c1.val) : c1.val[i].genres.t = "missing"
                       \/ \A i \in 1..Len(c1.val) : c1.val[i].year.t = "missing",
                "column"), LAMBDA c2 :
    With(FailIf(c2, \E i \in 1..Len(c2.val) : NotNumber(c2.val[i].rating), "format"), LAMBDA c3 :
    With(Inline(c3, "movies.aggregate", genre_ratings(db, tie)), LAMBDA c4 :
    \* genre_ratings_df.columns = [...] on a frame without columns
    FailIf(c4, Len(c4.val) = 0, "empty")))))

show_temporal_trends(ctx, db, t, tie) ==
    With(Memo(ctx, "get_movies_by_decade", NoArgs, db, t, tie), LAMBDA c1 :
    \* decade_df['Decade'] on a frame without columns
    With(FailIf(c1, Len(c1.val) = 0, "empty"), LAMBDA c2 :
    With(Inline(c2, "movies.aggregate", rating_trend(db)), LAMBDA c3 :
    \* rating_trend_df.columns = [...] on a frame without columns
    FailIf(c3, Len(c3.val) = 0, "empty"))))

show_geographic_view(ctx, db, t, tie) ==
    With(Memo(ctx, "get_theater_locations", NoArgs, db, t, tie), LAMBDA c1 :
        IF c1.status # "ok" \/ Len(c1.val) = 0 THEN c1
        ELSE With(PlaceMarkers(c1.val), LAMBDA m :
             With(FailIf([c1 EXCEPT !.markers = m.markers], m.raised, "coords"), LAMBDA c2 :
             With(Inline(c2, "theaters.aggregate", state_distribution(db, tie)), LAMBDA c3 :
             \* px.bar of a frame without the State and Count columns
             FailIf(c3, Len(c3.val) = 0, "empty")))))

show_user_engagement(ctx, db, t, tie) ==
    With(Memo(ctx, "get_overview_stats", NoArgs, db, t, tie), LAMBDA c1 :
    With(Memo(c1, "get_comment_trends", NoArgs, db, t, tie), LAMBDA c2 :
    Inline(c2, "comments.aggregate", most_commented(db, tie))))

\* The widgets of show_search: the text box, the genre selectbox, the year slider
\* and the Search button
Input(query, genre, yr, button) == [query |-> query, genre |-> genre, yr |-> yr, button |-> button]
NoInput == Input(<<>>, GenreAll, <<1990, 2020>>, FALSE)

show_search(ctx, db, t, tie, input) ==
    With(Inline(ctx, "movies.distinct", distinct_genres(db)), LAMBDA c1 :
        IF c1.status # "ok" \/ ~(input.button \/ input.query # <<>>) THEN c1
        ELSE With(Memo(c1, "search_movies",
                       [NoArgs EXCEPT !.query = input.query,
                                      !.genre = IF input.genre # GenreAll THEN input.genre ELSE GenreNone,
                                      !.yr = input.yr],
                       db, t, tie), LAMBDA c2 :
             \* f"{row['rating']:.1f}" of a non-empty string
             FailIf(c2, \E i \in 1..Len(c2.val) : c2.val[i].rating.t = "str" /\ c2.val[i].rating.v # 0,
                    "format")))

Pages == {"Overview", "Movie Analytics", "Temporal Trends", "Geographic View",
          "User Engagement", "Search Movies"}

\* The page routing of main
View(page, ctx, db, t, tie, input) ==
    CASE page = "Overview" -> show_overview(ctx, db, t, tie)
      [] page = "Movie Analytics" -> show_movie_analytics(ctx, db, t, tie)
      [] page = "Temporal Trends" -> show_temporal_trends(ctx, db, t, tie)
      [] page = "Geographic View" -> show_geographic_view(ctx, db, t, tie)
      [] page = "User Engagement" -> show_user_engagement(ctx, db, t, tie)
      [] page = "Search Movies" -> show_search(ctx, db, t, tie, input)

\* ------------------------------------------------------------------------
\* get_database_connection and main
\* ------------------------------------------------------------------------
\* The body of get_database_connection.  MongoClient(...) resolves the
\* mongodb+srv name and raises when it cannot, which the except turns into None;
\* it does not wait for a server, so with the name resolved and no server
\* reachable a handle is returned and the first request raises instead.
Connect(n) == IF n = "nodns" THEN "none" ELSE "db"

\* st.cache_resource: the body runs when nothing is cached yet, and what it
\* returns, None included, is kept; ran tells whether the body ran
get_database_connection_uncached(c, n) == [db |-> Connect(n), ran |-> TRUE]
get_database_connection(c, n) ==
    IF c = "unset" THEN [db |-> Connect(n), ran |-> TRUE] ELSE [db |-> c, ran |-> FALSE]

\* What the render before this one was
Previous(o) ==
    IF o.op = "render"
    THEN [page |-> o.page, args |-> o.args, at |-> o.at, status |-> o.status, oldest |-> o.oldest,
          handle |-> o.handle]
    ELSE [page |-> "none", args |-> NoInput, at |-> 0, status |-> "none", oldest |-> 0,
          handle |-> "unset"]

\* How many times the body of get_database_connection has run in this process,
\* this render included
Runs(o, ran) == (IF o.op = "render" THEN o.runs ELSE 0) + (IF ran THEN 1 ELSE 0)

\* The stamp of the oldest entry among the memoized calls of a render
Oldest(calls, t) ==
    IF calls = <<>> THEN t
    ELSE CHOOSE x \in {calls[i].stamp : i \in 1..Len(calls)} :
            \A i \in 1..Len(calls) : x <= calls[i].stamp

\* Main, whole: the connection, then the sidebar and the selected page's view
main(page, input, tie) ==
    \E g \in {get_database_connection(conn, net)} : \E db \in {g.db} :
        /\ conn' = db
        /\ IF db = "none"
           THEN /\ cache' = cache
                /\ out' = [op |-> "render", page |-> "none", args |-> NoInput, at |-> now,
                           db |-> store, status |-> "halt", cause |-> "connection",
                           selector |-> FALSE, view |-> "none", sent |-> <<>>, calls |-> <<>>,
                           markers |-> <<>>, before |-> cache, oldest |-> now,
                           prev |-> Previous(out), handle |-> db, runs |-> Runs(out, g.ran)]
           ELSE \E r \in {View(page, StartRender(cache), store, now, tie, input)} :
                /\ cache' = r.cache
                /\ out' = [op |-> "render", page |-> page, args |-> input, at |-> now,
                           db |-> store, status |-> r.status, cause |-> r.cause,
                           selector |-> TRUE, view |-> page, sent |-> r.sent, calls |-> r.calls,
                           markers |-> r.markers, before |-> cache, oldest |-> Oldest(r.calls, now),
                           prev |-> Previous(out), handle |-> db, runs |-> Runs(out, g.ran)]

\* ------------------------------------------------------------------------
\* Spec: renders of the dashboard, the clock, and the store changing under it
\* ------------------------------------------------------------------------
MaxRenders == 2
TickStep == 1800
MaxTime == 3600

SmallStore ==
    [movies |-> <<Movie(1, <<"a", "b">>, Num(1995), Genres(<<1, 2>>), Num(80), Num(2000)),
                  Movie(2, <<"b">>, Num(2001), Genres(<<2>>), Num(70), Num(500))>>,
     theaters |-> <<Theater(Str(1), Str(1), Coordinates("list", <<Num(-98), Num(39)>>))>>,
     comments |-> <<Comment(1, Date(2001, 5))>>,
     users |-> 1]

\* Fifty movies of one genre, each with a rating of its own: enough for the genre
\* ratings of show_movie_analytics
LargeStore ==
    [movies |-> [i \in 1..50 |-> [ManyMovies(50, 1)[i] EXCEPT !.rating = Num(40 + i)]],
     theaters |-> ManyTheaters(3),
     comments |-> ManyComments(2), users |-> 2]

Stores == {EmptyStore, SmallStore, LargeStore}

\* "up": the store answers; "nodns": its name does not resolve; "noserver": the
\* name resolves and no server answers
Nets == {"up", "nodns", "noserver"}

SearchInputs == {NoInput, Input(<<"a">>, 1, <<1990, 2020>>, TRUE)}

Init ==
    /\ store \in Stores
    /\ net \in Nets
    /\ conn = "unset"
    /\ cache = NoCache
    /\ now = 0
    /\ renders = 0
    /\ out = [op |-> "none"]

\* A run of the script: the user opens the dashboard, selects a page or changes a filter
Render(page, input, tie) ==
    /\ renders < MaxRenders
    /\ page = "Search Movies" \/ input = NoInput
    /\ input.genre = GenreAll \/ input.genre \in Range(distinct_genres(store))
    /\ main(page, input, tie)
    /\ renders' = renders + 1
    /\ UNCHANGED <<store, net, now>>

\* Time passes; entries that have reached the ttl are gone
Tick ==
    /\ now + TickStep <= MaxTime
    /\ now' = now + TickStep
    /\ cache' = [k \in {x \in DOMAIN cache : Live(cache[x].stamp, now + TickStep)} |-> cache[k]]
    /\ UNCHANGED <<store, net, conn, renders, out>>

\* Another client of the store writes to it
StoreChange ==
    /\ store' \in Stores \ {store}
    /\ UNCHANGED <<net, conn, cache, now, renders, out>>

Next ==
    \/ \E page \in Pages, input \in SearchInputs, tie \in TieOrders : Render(page, input, tie)
    \/ Tick
    \/ StoreChange

Spec == Init /\ [][Next]_vars

\* What a fresh execution of a memoized function can return on the store db
Fresh(fn, args, db) == {Exec(fn, args, db, tie).value : tie \in TieOrders}

\* C5 as stated: whenever a memoized function is served from an entry younger
\* than the ttl, the value is what a fresh execution against the store would
\* return at that moment (stated of the renders that ran to their end).
C5_CachedEqualsFresh ==
    (out.op = "render" /\ out.status = "ok" /\ out.prev.status \in {"ok", "none"}) =>
        \A i \in 1..Len(out.calls) :
            out.calls[i].hit => out.calls[i].value \in Fresh(out.calls[i].fn, out.calls[i].args, out.db)

\* C5 as amended: a memoized function is served from an entry only while the
\* entry is younger than the ttl, and the value served is what the execution
\* that stored the entry returned on the store as it was then (src): it is what
\* a fresh execution returns whenever the store holds what it held then.
C5_CachedEqualsStored ==
    out.op = "render" =>
        \A i \in 1..Len(out.calls) :
            out.calls[i].hit =>
                /\ out.at - out.calls[i].stamp < 3600
                /\ out.calls[i].value \in Fresh(out.calls[i].fn, out.calls[i].args, out.calls[i].src)

\* An entry younger than the ttl was served after the store had changed, and it
\* is not what a fresh execution returns
C5_Witness ==
    /\ out.op = "render"
    /\ \E i \in 1..Len(out.calls) :
          /\ out.calls[i].hit
          /\ out.calls[i].src # out.db
          /\ out.calls[i].value \notin Fresh(out.calls[i].fn, out.calls[i].args, out.db)

\* C7: whenever connecting to the store fails, main shows the error and returns
\* before the page selector is drawn, a view function is invoked or a query is sent.
C7_FailureHalts ==
    (out.op = "render" /\ net # "up") =>
        /\ out.status = "halt"
        /\ ~out.selector
        /\ out.view = "none"
        /\ out.sent = <<>>

\* C8: no render is aborted by an exception raised because a result set is empty.
C8_EmptyRendersNormally == out.op = "render" => out.cause # "empty"

\* The render is of the page and filter values of the render before it, both
\* ran to their end, and it starts less than the ttl after the first
SecondRender ==
    /\ out.op = "render"
    /\ out.status = "ok" /\ out.prev.status = "ok"
    /\ out.prev.page = out.page /\ out.prev.args = out.args
    /\ out.at - out.prev.at < 3600

InitConn ==
    /\ store \in {EmptyStore, SmallStore}
    /\ net \in Nets
    /\ conn = "unset"
    /\ cache = NoCache
    /\ now = 0
    /\ renders = 0
    /\ out = [op |-> "none"]

\* The name starts or stops resolving, the server comes up or goes away
NetChange ==
    /\ net' \in Nets \ {net}
    /\ UNCHANGED <<store, conn, cache, now, renders, out>>

NextConn ==
    \/ \E page \in Pages, input \in SearchInputs, tie \in TieOrders : Render(page, input, tie)
    \/ NetChange

SpecConn == InitConn /\ [][NextConn]_vars

\* C11: across the renders of one process the body of get_database_connection
\* runs at most once; every later render gets the outcome of the first, handle
\* or None, so after a render that halted on a failed connection every later
\* render halts with the connection error too, and sends nothing.
C11_ConnectedOnce ==
    out.op = "render" =>
        /\ out.runs <= 1
        /\ out.prev.status # "none" => out.handle = out.prev.handle
        /\ out.prev.status = "halt" =>
              /\ out.status = "halt" /\ out.cause = "connection"
              /\ out.handle = "none" /\ out.sent = <<>>

\* A render after one that halted on a failed connection, with the store
\* reachable by now: it halts again, the connection was not retried
C11_Witness ==
    /\ out.op = "render"
    /\ out.prev.status = "halt"
    /\ net = "up"
    /\ out.status = "halt" /\ out.runs = 1

====
